---- MODULE Spec2Model ----
(***************************************************************************)
(* Encoding detection core of chartset-normalizer-python-rs                *)
(* (src/src/core/lib.rs): from_path and from_path_stream.                  *)
(*                                                                         *)
(* Conventions.                                                            *)
(*  - A byte is a number in 0..255, a byte buffer a sequence of bytes.     *)
(*  - A Rust string the code inspects character by character (labels and   *)
(*    encoding names: to_lowercase, replace, contains, starts_with) is a   *)
(*    sequence of one-character strings; a decoded text is a sequence of   *)
(*    Unicode scalar values.                                               *)
(*  - An f32 score is an integer in units of 2^-29, computed with the      *)
(*    rounding of f32 arithmetic; an error ratio is kept as the quotient   *)
(*    [num, den] it is computed from and compared by cross multiplication. *)
(*  - chardet::detect and encoding_rs are external crates: the first is a  *)
(*    chosen answer (oracle) for samples with bytes >= 0x80 and "ascii"    *)
(*    for 7-bit samples, the second follows the WHATWG Encoding Standard   *)
(*    decoders, with index tables restricted to the bytes in ByteAlphabet. *)
(***************************************************************************)
EXTENDS Integers, Sequences, FiniteSets, TLC

\* ------------------------------------------------------------------ bounds
\* longest tail that follows the (optional) byte-order mark in Spec
MaxLen == 2
\* largest explicit max_sample_size argument tried (besides the default)
MaxArg == 1
\* most units (characters or stray lead bytes) of a file in SpecKorean
MaxUnits == 5
\* most leading units 'A' NUL of a file in SpecAscii, and most repetitions of
\* the two-byte unit that follows them
MaxHead == 3
MaxRep == 21
\* longest tail that follows the four-byte or two-byte mark in SpecMarks
MaxTail == 2
\* longest file of SpecNulls, and most NUL bytes it has at odd offsets and at
\* even offsets
MaxSample == 33
MaxNulls == 3

\* ------------------------------------------------------- program constants
CHUNK_SIZE == 8192
MAX_SAMPLE_SIZE == 1048576
\* U+FFFD REPLACEMENT CHARACTER, what the loop counts as an error character
REPLACEMENT == 65533

\* Option::None of an Option<String> or Option<&str>: no sequence of characters
None == <<"None">>

\* ------------------------------------------------------- string primitives
UPPER == <<"A","B","C","D","E","F","G","H","I","J","K","L","M",
           "N","O","P","Q","R","S","T","U","V","W","X","Y","Z">>
LOWER == <<"a","b","c","d","e","f","g","h","i","j","k","l","m",
           "n","o","p","q","r","s","t","u","v","w","x","y","z">>

\* char::to_lowercase on the ASCII letters the labels are made of
LowerChar(c) ==
    IF \E i \in 1..26 : UPPER[i] = c
    THEN LOWER[CHOOSE i \in 1..26 : UPPER[i] = c]
    ELSE c

\* str::to_lowercase
ToLower(s) == [i \in 1..Len(s) |-> LowerChar(s[i])]

\* str::replace(from, to) for a one-character pattern
ReplaceChar(s, from, to) == [i \in 1..Len(s) |-> IF s[i] = from THEN to ELSE s[i]]

\* str::replace(c, "") for a one-character pattern
RECURSIVE RemoveChar(_, _)
RemoveChar(s, c) ==
    IF s = <<>> THEN <<>>
    ELSE IF Head(s) = c THEN RemoveChar(Tail(s), c)
    ELSE <<Head(s)>> \o RemoveChar(Tail(s), c)

\* str::starts_with
StartsWith(s, p) == Len(s) >= Len(p) /\ SubSeq(s, 1, Len(p)) = p

\* str::contains
Contains(s, p) == \E i \in 1..(Len(s) - Len(p) + 1) : SubSeq(s, i, i + Len(p) - 1) = p

\* ------------------------------------------------ normalize_encoding_name
\* normalize_encoding_name with to_lowercase forgotten: no arm matches a name
\* with capitals, and it passes through with only '-' replaced
normalize_without_lowercase(encoding) == ReplaceChar(encoding, "-", "_")

normalize_encoding_name(encoding) ==
    LET normalized == ReplaceChar(ToLower(encoding), "-", "_") IN
    IF normalized \in {<<"u","t","f","_","8">>, <<"u","t","f","8">>} THEN <<"u","t","f","_","8">>
    ELSE IF normalized \in {<<"u","t","f","_","1","6">>, <<"u","t","f","1","6">>} THEN <<"u","t","f","_","1","6">>
    ELSE IF normalized \in {<<"u","t","f","_","1","6","_","l","e">>, <<"u","t","f","1","6","_","l","e">>, <<"u","t","f","_","1","6","l","e">>, <<"u","t","f","1","6","l","e">>} THEN <<"u","t","f","_","1","6","l","e">>
    ELSE IF normalized \in {<<"u","t","f","_","1","6","_","b","e">>, <<"u","t","f","1","6","_","b","e">>, <<"u","t","f","_","1","6","b","e">>, <<"u","t","f","1","6","b","e">>} THEN <<"u","t","f","_","1","6","b","e">>
    ELSE IF normalized \in {<<"i","s","o","_","8","8","5","9","_","1">>, <<"i","s","o","8","8","5","9","_","1">>, <<"l","a","t","i","n","_","1">>, <<"l","a","t","i","n","1">>} THEN <<"l","a","t","i","n","_","1">>
    ELSE IF normalized \in {<<"w","i","n","d","o","w","s","_","1","2","5","2">>, <<"c","p","_","1","2","5","2">>} THEN <<"c","p","1","2","5","2">>
    ELSE IF normalized \in {<<"w","i","n","d","o","w","s","_","1","2","5","6">>, <<"c","p","_","1","2","5","6">>} THEN <<"c","p","1","2","5","6">>
    ELSE IF normalized \in {<<"w","i","n","d","o","w","s","_","1","2","5","5">>, <<"c","p","_","1","2","5","5">>} THEN <<"c","p","1","2","5","5">>
    ELSE IF normalized \in {<<"w","i","n","d","o","w","s","_","1","2","5","3">>, <<"c","p","_","1","2","5","3">>} THEN <<"c","p","1","2","5","3">>
    ELSE IF normalized \in {<<"w","i","n","d","o","w","s","_","1","2","5","1">>, <<"c","p","_","1","2","5","1">>} THEN <<"c","p","1","2","5","1">>
    ELSE IF normalized \in {<<"w","i","n","d","o","w","s","_","1","2","5","4">>, <<"c","p","_","1","2","5","4">>} THEN <<"c","p","1","2","5","4">>
    ELSE IF normalized \in {<<"w","i","n","d","o","w","s","_","1","2","5","0">>, <<"c","p","_","1","2","5","0">>} THEN <<"c","p","1","2","5","0">>
    ELSE IF normalized \in {<<"w","i","n","d","o","w","s","_","9","4","9">>, <<"c","p","_","9","4","9">>} THEN <<"c","p","9","4","9">>
    ELSE IF normalized \in {<<"s","h","i","f","t","_","j","i","s">>, <<"s","h","i","f","t","_","j","i","s","_","2","0","0","4">>} THEN <<"s","h","i","f","t","_","j","i","s">>
    ELSE IF normalized \in {<<"e","u","c","_","j","p">>, <<"e","u","c","-","j","p">>} THEN <<"e","u","c","_","j","p">>
    ELSE IF normalized \in {<<"e","u","c","_","k","r">>, <<"e","u","c","-","k","r">>} THEN <<"e","u","c","_","k","r">>
    ELSE IF normalized \in {<<"g","b","2","3","1","2">>, <<"g","b","_","2","3","1","2">>} THEN <<"g","b","2","3","1","2">>
    ELSE IF normalized = <<"g","b","k">> THEN <<"g","b","k">>
    ELSE IF normalized = <<"b","i","g","5">> THEN <<"b","i","g","5">>
    ELSE IF normalized \in {<<"m","a","c","i","n","t","o","s","h">>, <<"m","a","c","_","r","o","m","a","n">>} THEN <<"m","a","c","_","r","o","m","a","n">>
    ELSE IF normalized \in {<<"m","a","c","_","c","y","r","i","l","l","i","c">>, <<"x","_","m","a","c","_","c","y","r","i","l","l","i","c">>} THEN <<"m","a","c","_","c","y","r","i","l","l","i","c">>
    ELSE IF normalized \in {<<"k","o","i","8","_","r">>, <<"k","o","i","8","r">>} THEN <<"k","o","i","8","_","r">>
    ELSE IF normalized = <<"k","o","i","8","_","u">> THEN <<"k","o","i","8","_","u">>
    ELSE IF StartsWith(normalized, <<"c","p","_">>) THEN RemoveChar(normalized, "_")
    ELSE normalized

\* The identifiers the match arms of normalize_encoding_name produce
NormalizerTable ==
    {<<"u","t","f","_","8">>, <<"u","t","f","_","1","6">>, <<"u","t","f","_","1","6","l","e">>, <<"u","t","f","_","1","6","b","e">>, <<"l","a","t","i","n","_","1">>, <<"c","p","1","2","5","2">>, <<"c","p","1","2","5","6">>,
     <<"c","p","1","2","5","5">>, <<"c","p","1","2","5","3">>, <<"c","p","1","2","5","1">>, <<"c","p","1","2","5","4">>, <<"c","p","1","2","5","0">>, <<"c","p","9","4","9">>, <<"s","h","i","f","t","_","j","i","s">>,
     <<"e","u","c","_","j","p">>, <<"e","u","c","_","k","r">>, <<"g","b","2","3","1","2">>, <<"g","b","k">>, <<"b","i","g","5">>, <<"m","a","c","_","r","o","m","a","n">>, <<"m","a","c","_","c","y","r","i","l","l","i","c">>,
     <<"k","o","i","8","_","r">>, <<"k","o","i","8","_","u">>}

\* ------------------------------------------------------------ encoding_rs
\* Encoding::name() of the encodings the candidate labels resolve to
UTF_8 == <<"U","T","F","-","8">>
UTF_16LE == <<"U","T","F","-","1","6","L","E">>
UTF_16BE == <<"U","T","F","-","1","6","B","E">>
X_MAC_CYRILLIC == <<"x","-","m","a","c","-","c","y","r","i","l","l","i","c">>
WINDOWS_1250 == <<"w","i","n","d","o","w","s","-","1","2","5","0">>
WINDOWS_1251 == <<"w","i","n","d","o","w","s","-","1","2","5","1">>
WINDOWS_1252 == <<"w","i","n","d","o","w","s","-","1","2","5","2">>
WINDOWS_1253 == <<"w","i","n","d","o","w","s","-","1","2","5","3">>
WINDOWS_1254 == <<"w","i","n","d","o","w","s","-","1","2","5","4">>
WINDOWS_1255 == <<"w","i","n","d","o","w","s","-","1","2","5","5">>
WINDOWS_1256 == <<"w","i","n","d","o","w","s","-","1","2","5","6">>
EUC_KR == <<"E","U","C","-","K","R">>
BIG5 == <<"B","i","g","5">>
GBK == <<"G","B","K">>
SHIFT_JIS == <<"S","h","i","f","t","_","J","I","S">>
EUC_JP == <<"E","U","C","-","J","P">>
KOI8_R == <<"K","O","I","8","-","R">>

SingleByteEncodings ==
    {X_MAC_CYRILLIC, WINDOWS_1250, WINDOWS_1251, WINDOWS_1252, WINDOWS_1253,
     WINDOWS_1254, WINDOWS_1255, WINDOWS_1256, KOI8_R}

\* Encoding::for_label: the label, ASCII-lowercased, looked up in the WHATWG
\* label table (the rows of the encodings above); None for any other label,
\* among them "utf_8", "mac-cyrillic", "UTF-32LE" and "UTF-32BE".
for_label(label) ==
    LET l == ToLower(label) IN
    IF l \in {<<"u","n","i","c","o","d","e","-","1","-","1","-","u","t","f","-","8">>, <<"u","n","i","c","o","d","e","1","1","u","t","f","8">>, <<"u","n","i","c","o","d","e","2","0","u","t","f","8">>, <<"u","t","f","-","8">>, <<"u","t","f","8">>,
              <<"x","-","u","n","i","c","o","d","e","2","0","u","t","f","8">>} THEN UTF_8
    ELSE IF l \in {<<"c","s","u","n","i","c","o","d","e">>, <<"i","s","o","-","1","0","6","4","6","-","u","c","s","-","2">>, <<"u","c","s","-","2">>, <<"u","n","i","c","o","d","e">>, <<"u","n","i","c","o","d","e","f","e","f","f">>,
                   <<"u","t","f","-","1","6">>, <<"u","t","f","-","1","6","l","e">>} THEN UTF_16LE
    ELSE IF l \in {<<"u","n","i","c","o","d","e","f","f","f","e">>, <<"u","t","f","-","1","6","b","e">>} THEN UTF_16BE
    ELSE IF l \in {<<"x","-","m","a","c","-","c","y","r","i","l","l","i","c">>, <<"x","-","m","a","c","-","u","k","r","a","i","n","i","a","n">>} THEN X_MAC_CYRILLIC
    ELSE IF l \in {<<"c","p","1","2","5","0">>, <<"w","i","n","d","o","w","s","-","1","2","5","0">>, <<"x","-","c","p","1","2","5","0">>} THEN WINDOWS_1250
    ELSE IF l \in {<<"c","p","1","2","5","1">>, <<"w","i","n","d","o","w","s","-","1","2","5","1">>, <<"x","-","c","p","1","2","5","1">>} THEN WINDOWS_1251
    ELSE IF l \in {<<"a","n","s","i","_","x","3",".","4","-","1","9","6","8">>, <<"a","s","c","i","i">>, <<"c","p","1","2","5","2">>, <<"c","p","8","1","9">>, <<"c","s","i","s","o","l","a","t","i","n","1">>, <<"i","b","m","8","1","9">>,
                   <<"i","s","o","-","8","8","5","9","-","1">>, <<"i","s","o","-","i","r","-","1","0","0">>, <<"i","s","o","8","8","5","9","-","1">>, <<"i","s","o","8","8","5","9","1">>, <<"i","s","o","_","8","8","5","9","-","1">>,
                   <<"i","s","o","_","8","8","5","9","-","1",":","1","9","8","7">>, <<"l","1">>, <<"l","a","t","i","n","1">>, <<"u","s","-","a","s","c","i","i">>, <<"w","i","n","d","o","w","s","-","1","2","5","2">>,
                   <<"x","-","c","p","1","2","5","2">>} THEN WINDOWS_1252
    ELSE IF l \in {<<"c","p","1","2","5","3">>, <<"w","i","n","d","o","w","s","-","1","2","5","3">>, <<"x","-","c","p","1","2","5","3">>} THEN WINDOWS_1253
    ELSE IF l \in {<<"c","p","1","2","5","4">>, <<"c","s","i","s","o","l","a","t","i","n","5">>, <<"i","s","o","-","8","8","5","9","-","9">>, <<"i","s","o","-","i","r","-","1","4","8">>, <<"i","s","o","8","8","5","9","-","9">>,
                   <<"i","s","o","8","8","5","9","9">>, <<"i","s","o","_","8","8","5","9","-","9">>, <<"i","s","o","_","8","8","5","9","-","9",":","1","9","8","9">>, <<"l","5">>, <<"l","a","t","i","n","5">>,
                   <<"w","i","n","d","o","w","s","-","1","2","5","4">>, <<"x","-","c","p","1","2","5","4">>} THEN WINDOWS_1254
    ELSE IF l \in {<<"c","p","1","2","5","5">>, <<"w","i","n","d","o","w","s","-","1","2","5","5">>, <<"x","-","c","p","1","2","5","5">>} THEN WINDOWS_1255
    ELSE IF l \in {<<"c","p","1","2","5","6">>, <<"w","i","n","d","o","w","s","-","1","2","5","6">>, <<"x","-","c","p","1","2","5","6">>} THEN WINDOWS_1256
    ELSE IF l \in {<<"c","s","e","u","c","k","r">>, <<"c","s","k","s","c","5","6","0","1","1","9","8","7">>, <<"e","u","c","-","k","r">>, <<"i","s","o","-","i","r","-","1","4","9">>, <<"k","o","r","e","a","n">>,
                   <<"k","s","_","c","_","5","6","0","1","-","1","9","8","7">>, <<"k","s","_","c","_","5","6","0","1","-","1","9","8","9">>, <<"k","s","c","5","6","0","1">>, <<"k","s","c","_","5","6","0","1">>,
                   <<"w","i","n","d","o","w","s","-","9","4","9">>} THEN EUC_KR
    ELSE IF l \in {<<"b","i","g","5">>, <<"b","i","g","5","-","h","k","s","c","s">>, <<"c","n","-","b","i","g","5">>, <<"c","s","b","i","g","5">>, <<"x","-","x","-","b","i","g","5">>} THEN BIG5
    ELSE IF l \in {<<"c","h","i","n","e","s","e">>, <<"c","s","g","b","2","3","1","2">>, <<"c","s","i","s","o","5","8","g","b","2","3","1","2","8","0">>, <<"g","b","2","3","1","2">>, <<"g","b","_","2","3","1","2">>,
                   <<"g","b","_","2","3","1","2","-","8","0">>, <<"g","b","k">>, <<"i","s","o","-","i","r","-","5","8">>, <<"x","-","g","b","k">>} THEN GBK
    ELSE IF l \in {<<"c","s","s","h","i","f","t","j","i","s">>, <<"m","s","9","3","2">>, <<"m","s","_","k","a","n","j","i">>, <<"s","h","i","f","t","-","j","i","s">>, <<"s","h","i","f","t","_","j","i","s">>, <<"s","j","i","s">>,
                   <<"w","i","n","d","o","w","s","-","3","1","j">>, <<"x","-","s","j","i","s">>} THEN SHIFT_JIS
    ELSE IF l \in {<<"c","s","e","u","c","p","k","d","f","m","t","j","a","p","a","n","e","s","e">>, <<"e","u","c","-","j","p">>, <<"x","-","e","u","c","-","j","p">>} THEN EUC_JP
    ELSE IF l \in {<<"c","s","k","o","i","8","r">>, <<"k","o","i">>, <<"k","o","i","8">>, <<"k","o","i","8","-","r">>, <<"k","o","i","8","_","r">>} THEN KOI8_R
    ELSE None

\* A malformed sequence in a decoder's output, before it becomes U+FFFD
Malformed == -1

\* The bytes the samples are made of: NUL, 0x06 and 'A' (7-bit, the same in
\* every index), the three high bytes whose index entries are modelled and
\* the bytes of the byte-order marks.
ByteAlphabet == {0, 6, 65, 163, 176, 187, 191, 239, 254, 255}

\* Index of a single-byte encoding at a byte >= 0x80 (WHATWG index-*.txt);
\* Malformed where the index has no entry.
SingleByteIndex(enc, b) ==
    CASE enc = WINDOWS_1250 ->
           (CASE b = 163 -> 321 [] b = 176 -> 176 [] b = 187 -> 187 [] b = 191 -> 380
              [] b = 239 -> 271 [] b = 254 -> 355 [] b = 255 -> 729)
      [] enc = WINDOWS_1251 ->
           (CASE b = 163 -> 1032 [] b = 176 -> 176 [] b = 187 -> 187 [] b = 191 -> 1111
              [] b = 239 -> 1087 [] b = 254 -> 1102 [] b = 255 -> 1103)
      [] enc = WINDOWS_1252 ->
           (CASE b = 163 -> 163 [] b = 176 -> 176 [] b = 187 -> 187 [] b = 191 -> 191
              [] b = 239 -> 239 [] b = 254 -> 254 [] b = 255 -> 255)
      [] enc = WINDOWS_1253 ->
           (CASE b = 163 -> 163 [] b = 176 -> 176 [] b = 187 -> 187 [] b = 191 -> 911
              [] b = 239 -> 959 [] b = 254 -> 974 [] b = 255 -> Malformed)
      [] enc = WINDOWS_1254 ->
           (CASE b = 163 -> 163 [] b = 176 -> 176 [] b = 187 -> 187 [] b = 191 -> 191
              [] b = 239 -> 239 [] b = 254 -> 351 [] b = 255 -> 255)
      [] enc = WINDOWS_1255 ->
           (CASE b = 163 -> 163 [] b = 176 -> 176 [] b = 187 -> 187 [] b = 191 -> 191
              [] b = 239 -> 1503 [] b = 254 -> 8207 [] b = 255 -> Malformed)
      [] enc = WINDOWS_1256 ->
           (CASE b = 163 -> 163 [] b = 176 -> 176 [] b = 187 -> 187 [] b = 191 -> 1567
              [] b = 239 -> 239 [] b = 254 -> 8207 [] b = 255 -> 1746)
      [] enc = X_MAC_CYRILLIC ->
           (CASE b = 163 -> 163 [] b = 176 -> 8734 [] b = 187 -> 1111 [] b = 191 -> 1114
              [] b = 239 -> 1087 [] b = 254 -> 1102 [] b = 255 -> 8364)
      [] enc = KOI8_R ->
           (CASE b = 163 -> 1105 [] b = 176 -> 9567 [] b = 187 -> 9577 [] b = 191 -> 169
              [] b = 239 -> 1054 [] b = 254 -> 1063 [] b = 255 -> 1066)

\* Single-byte decoder: ASCII is itself, the rest goes through the index
SingleByteDecode(enc, bytes) ==
    [i \in 1..Len(bytes) |-> IF bytes[i] < 128 THEN bytes[i] ELSE SingleByteIndex(enc, bytes[i])]

\* Index of a double-byte encoding at (lead, trail), for the pairs of
\* ByteAlphabet that fall in the encoding's lead and trail ranges
\* (index-euc-kr, index-big5, index-gb18030, index-jis0208); Malformed where
\* the index has no entry.
PairIndex(enc, lead, trail) ==
    CASE enc = EUC_KR ->
           (CASE lead = 163 /\ trail = 65 -> 51569 [] lead = 163 /\ trail = 163 -> 65283
              [] lead = 163 /\ trail = 176 -> 65296 [] lead = 176 /\ trail = 65 -> 52890
              [] lead = 176 /\ trail = 163 -> 44036 [] lead = 176 /\ trail = 176 -> 44057
              [] lead = 239 /\ trail = 187 -> 30308
              [] lead \in {239, 254} /\ trail = 65 -> Malformed)
      [] enc = BIG5 ->
           (CASE lead = 163 /\ trail = 65 -> 65368 [] lead = 163 /\ trail = 163 -> 12562
              [] lead = 163 /\ trail = 176 -> 12575 [] lead = 176 /\ trail = 65 -> 34442
              [] lead = 176 /\ trail = 163 -> 38500 [] lead = 176 /\ trail = 176 -> 20605
              [] lead = 239 /\ trail = 187 -> 22172)
      [] enc = GBK ->
           (CASE lead = 163 /\ trail = 65 -> 58759 [] lead = 163 /\ trail = 163 -> 65283
              [] lead = 163 /\ trail = 176 -> 65296 [] lead = 176 /\ trail = 65 -> 30278
              [] lead = 176 /\ trail = 163 -> 22467 [] lead = 176 /\ trail = 176 -> 38797
              [] lead = 239 /\ trail = 187 -> 38168)
      [] enc = EUC_JP ->
           (CASE lead = 163 /\ trail = 163 -> Malformed [] lead = 163 /\ trail = 176 -> 65296
              [] lead = 176 /\ trail = 163 -> 23043 [] lead = 176 /\ trail = 176 -> 26093
              [] lead = 239 /\ trail = 187 -> 37860)
      [] enc = SHIFT_JIS ->
           (CASE lead = 239 /\ trail \in {65, 163, 176, 187} -> Malformed)

\* First byte of a double-byte sequence
IsLead(enc, b) ==
    CASE enc = EUC_KR -> b \in 129..254
      [] enc = BIG5 -> b \in 129..254
      [] enc = GBK -> b \in 129..254
      [] enc = SHIFT_JIS -> b \in 129..159 \/ b \in 224..252
      [] enc = EUC_JP -> b = 142 \/ b = 143 \/ b \in 161..254

\* Second byte in the range the decoder computes a pointer for
IsTrail(enc, lead, b) ==
    CASE enc = EUC_KR -> b \in 65..254
      [] enc = BIG5 -> b \in 64..126 \/ b \in 161..254
      [] enc = GBK -> b \in 64..126 \/ b \in 128..254
      [] enc = SHIFT_JIS -> b \in 64..126 \/ b \in 128..252
      [] enc = EUC_JP -> lead \in 161..254 /\ b \in 161..254

\* A byte that is a character on its own: ASCII everywhere, 0x80 in GBK
\* (the euro sign) and Shift_JIS, half-width katakana in Shift_JIS;
\* Malformed for a byte that is neither this nor a lead.
LoneByte(enc, b) ==
    IF b < 128 THEN b
    ELSE IF enc = GBK /\ b = 128 THEN 8364
    ELSE IF enc = SHIFT_JIS /\ b = 128 THEN 128
    ELSE IF enc = SHIFT_JIS /\ b \in 161..223 THEN 65377 + (b - 161)
    ELSE Malformed

\* Double-byte decoders (EUC-KR, Big5, gb18030 two-byte form, Shift_JIS,
\* EUC-JP two-byte form).  After a lead: a trail with an index entry gives
\* the character; otherwise one error, and an ASCII trail is processed
\* again on its own.  A lead at the end of the input is one error.
RECURSIVE DoubleByteDecode(_, _, _)
DoubleByteDecode(enc, bytes, i) ==
    IF i > Len(bytes) THEN <<>>
    ELSE IF ~IsLead(enc, bytes[i])
         THEN <<LoneByte(enc, bytes[i])>> \o DoubleByteDecode(enc, bytes, i + 1)
    ELSE IF i = Len(bytes) THEN <<Malformed>>
    ELSE LET lead == bytes[i]
             trail == bytes[i + 1]
             cp == IF IsTrail(enc, lead, trail) THEN PairIndex(enc, lead, trail)
                   ELSE Malformed
         IN  IF cp # Malformed THEN <<cp>> \o DoubleByteDecode(enc, bytes, i + 2)
             ELSE IF trail < 128 THEN <<Malformed>> \o DoubleByteDecode(enc, bytes, i + 1)
             ELSE <<Malformed>> \o DoubleByteDecode(enc, bytes, i + 2)

\* UTF-8 decoder of the Encoding Standard: needed/seen count continuation
\* bytes, lower..upper is the range allowed for the next one.
RECURSIVE Utf8Decode(_, _, _, _, _, _, _)
Utf8Decode(bytes, i, needed, seen, cp, lower, upper) ==
    IF i > Len(bytes) THEN (IF needed # 0 THEN <<Malformed>> ELSE <<>>)
    ELSE LET b == bytes[i] IN
      IF needed = 0 THEN
        IF b <= 127 THEN <<b>> \o Utf8Decode(bytes, i + 1, 0, 0, 0, 128, 191)
        ELSE IF b \in 194..223 THEN Utf8Decode(bytes, i + 1, 1, 0, b % 32, 128, 191)
        ELSE IF b \in 224..239
             THEN Utf8Decode(bytes, i + 1, 2, 0, b % 16,
                             IF b = 224 THEN 160 ELSE 128, IF b = 237 THEN 159 ELSE 191)
        ELSE IF b \in 240..244
             THEN Utf8Decode(bytes, i + 1, 3, 0, b % 8,
                             IF b = 240 THEN 144 ELSE 128, IF b = 244 THEN 143 ELSE 191)
        ELSE <<Malformed>> \o Utf8Decode(bytes, i + 1, 0, 0, 0, 128, 191)
      ELSE IF b < lower \/ b > upper
           THEN <<Malformed>> \o Utf8Decode(bytes, i, 0, 0, 0, 128, 191)
      ELSE IF seen + 1 = needed
           THEN <<cp * 64 + (b % 64)>> \o Utf8Decode(bytes, i + 1, 0, 0, 0, 128, 191)
      ELSE Utf8Decode(bytes, i + 1, needed, seen + 1, cp * 64 + (b % 64), 128, 191)

\* UTF-16 decoder of the Encoding Standard; hi is the pending lead
\* surrogate (0 for none).
RECURSIVE Utf16Decode(_, _, _, _)
Utf16Decode(bytes, i, be, hi) ==
    IF i > Len(bytes) THEN (IF hi # 0 THEN <<Malformed>> ELSE <<>>)
    ELSE IF i = Len(bytes) THEN <<Malformed>>
    ELSE LET unit == IF be THEN bytes[i] * 256 + bytes[i + 1]
                     ELSE bytes[i + 1] * 256 + bytes[i]
         IN  IF hi # 0
             THEN IF unit \in 56320..57343
                  THEN <<65536 + (hi - 55296) * 1024 + (unit - 56320)>>
                       \o Utf16Decode(bytes, i + 2, be, 0)
                  ELSE <<Malformed>> \o Utf16Decode(bytes, i, be, 0)
             ELSE IF unit \in 55296..56319 THEN Utf16Decode(bytes, i + 2, be, unit)
             ELSE IF unit \in 56320..57343
                  THEN <<Malformed>> \o Utf16Decode(bytes, i + 2, be, 0)
             ELSE <<unit>> \o Utf16Decode(bytes, i + 2, be, 0)

\* Encoding::decode_without_bom_handling, malformed sequences still marked
DecodeRaw(enc, bytes) ==
    IF enc = UTF_8 THEN Utf8Decode(bytes, 1, 0, 0, 0, 128, 191)
    ELSE IF enc = UTF_16LE THEN Utf16Decode(bytes, 1, FALSE, 0)
    ELSE IF enc = UTF_16BE THEN Utf16Decode(bytes, 1, TRUE, 0)
    ELSE IF enc \in SingleByteEncodings THEN SingleByteDecode(enc, bytes)
    ELSE DoubleByteDecode(enc, bytes, 1)

\* Encoding::for_bom: the byte-order mark encoding_rs itself sniffs
for_bom(bytes) ==
    IF StartsWith(bytes, <<239, 187, 191>>) THEN [encoding |-> UTF_8, bom_length |-> 3]
    ELSE IF StartsWith(bytes, <<255, 254>>) THEN [encoding |-> UTF_16LE, bom_length |-> 2]
    ELSE IF StartsWith(bytes, <<254, 255>>) THEN [encoding |-> UTF_16BE, bom_length |-> 2]
    ELSE [encoding |-> None, bom_length |-> 0]

\* Every malformed sequence of a decoder's output becomes U+FFFD
Substitute(raw) ==
    [decoded |-> [i \in 1..Len(raw) |-> IF raw[i] = Malformed THEN REPLACEMENT ELSE raw[i]],
     had_errors |-> \E i \in 1..Len(raw) : raw[i] = Malformed]

\* Encoding::decode: a byte-order mark at the start of the slice overrides
\* the encoding and is removed; every malformed sequence becomes U+FFFD.
\* decoded is the text, had_errors the third component of the result.
decode(enc, bytes) ==
    LET bom == for_bom(bytes) IN
    Substitute(DecodeRaw(IF bom.encoding # None THEN bom.encoding ELSE enc,
                         SubSeq(bytes, bom.bom_length + 1, Len(bytes))))

\* ------------------------------------------------------------- heuristics
\* Iterator::filter(..).count() over a sequence
Count(s, P(_)) == Cardinality({i \in 1..Len(s) : P(s[i])})

Min(a, b) == IF a < b THEN a ELSE b
Max(a, b) == IF a > b THEN a ELSE b

\* analyze_byte_patterns: the hint set of the whole buffer.  The f32 ratios
\* count / len are compared as fractions (0.55 = 55/100, ...).
analyze_byte_patterns(buffer) ==
    LET high_bytes == Count(buffer, LAMBDA b : b >= 128)
        total_len == Len(buffer)
        lower_high == Count(buffer, LAMBDA b : b >= 192 /\ b < 224)
        upper_high == Count(buffer, LAMBDA b : b >= 224)
        arabic_specific == Count(buffer, LAMBDA b : b >= 192 /\ b <= 229)
        turkish_specific == Count(buffer, LAMBDA b : b \in {240, 253, 254})
    IN  IF high_bytes = 0 THEN {}
        ELSE (IF 100 * upper_high > 55 * total_len /\ 100 * lower_high < 35 * total_len
              THEN {"likely_mac_cyrillic"}
              ELSE IF 100 * arabic_specific > 35 * total_len
                      /\ 100 * upper_high < 65 * total_len
              THEN {"likely_arabic"}
              ELSE {})
             \cup (IF turkish_specific >= 2 THEN {"likely_turkish"} ELSE {})

\* detect_utf16_pattern with <= for < in the two tests of the other offsets
detect_utf16_pattern_inclusive(buffer) ==
    IF Len(buffer) < 20 THEN None
    ELSE LET sample_size == Min(Len(buffer), 1000)
             even_nulls == Cardinality({i \in 1..sample_size : (i - 1) % 2 = 0 /\ buffer[i] = 0})
             odd_nulls == Cardinality({i \in 1..sample_size : (i - 1) % 2 = 1 /\ buffer[i] = 0})
             threshold == sample_size \div 16
         IN  IF odd_nulls > threshold /\ even_nulls <= threshold \div 2 THEN <<"U","T","F","-","1","6","L","E">>
             ELSE IF even_nulls > threshold /\ odd_nulls <= threshold \div 2 THEN <<"U","T","F","-","1","6","B","E">>
             ELSE None

\* detect_utf16_pattern: NUL bytes at even and odd offsets (offset = index - 1)
\* of the first min(len, 1000) bytes
detect_utf16_pattern(buffer) ==
    IF Len(buffer) < 20 THEN None
    ELSE LET sample_size == Min(Len(buffer), 1000)
             even_nulls == Cardinality({i \in 1..sample_size : (i - 1) % 2 = 0 /\ buffer[i] = 0})
             odd_nulls == Cardinality({i \in 1..sample_size : (i - 1) % 2 = 1 /\ buffer[i] = 0})
             threshold == sample_size \div 16
         IN  IF odd_nulls > threshold /\ even_nulls < threshold \div 2 THEN <<"U","T","F","-","1","6","L","E">>
             ELSE IF even_nulls > threshold /\ odd_nulls < threshold \div 2 THEN <<"U","T","F","-","1","6","B","E">>
             ELSE None

\* detect_language_hints: the hint set of a decoded text
detect_language_hints(text) ==
    LET total_chars == Max(Len(text), 1)
        arabic_chars == Count(text, LAMBDA c : \/ (c >= 1536 /\ c <= 1791)
                                               \/ (c >= 64336 /\ c <= 65023)
                                               \/ (c >= 65136 /\ c <= 65279))
        cyrillic_chars == Count(text, LAMBDA c : \/ (c >= 1024 /\ c <= 1279)
                                                 \/ (c >= 1280 /\ c <= 1327))
        turkish_specific == Count(text, LAMBDA c : c \in {287, 286, 305, 304, 351, 350})
        korean_chars == Count(text, LAMBDA c : \/ (c >= 44032 /\ c <= 55215)
                                               \/ (c >= 4352 /\ c <= 4607)
                                               \/ (c >= 12592 /\ c <= 12687))
    IN  (IF 10 * arabic_chars > 3 * total_chars THEN {"arabic"} ELSE {})
        \cup (IF 10 * cyrillic_chars > 2 * total_chars /\ 10 * arabic_chars < total_chars
              THEN {"cyrillic"} ELSE {})
        \cup (IF turkish_specific >= 3 THEN {"turkish"} ELSE {})
        \cup (IF 10 * korean_chars > 2 * total_chars THEN {"korean"} ELSE {})

\* ---------------------------------------------------------------- chardet
\* chardet::detect(&buffer).0: for a sample without a byte >= 0x80 the
\* detector reports "ascii" (or an escape-sequence charset or no name, which
\* the match below sends to the same arm); for any other sample its answer
\* is the oracle chosen for the run.
chardet_detect(buffer, answer) ==
    IF \A i \in 1..Len(buffer) : buffer[i] < 128 THEN <<"a","s","c","i","i">> ELSE answer

\* Names chardet reports, one for each arm of the match
ChardetNames ==
    {<<"u","t","f","-","8">>, <<"B","i","g","5">>, <<"G","B","2","3","1","2">>, <<"I","S","O","-","8","8","5","9","-","1">>, <<"w","i","n","d","o","w","s","-","1","2","5","6">>, <<"w","i","n","d","o","w","s","-","1","2","5","5">>,
     <<"I","S","O","-","8","8","5","9","-","7">>, <<"w","i","n","d","o","w","s","-","1","2","5","1">>, <<"I","S","O","-","8","8","5","9","-","9">>, <<"I","S","O","-","8","8","5","9","-","2">>, <<"E","U","C","-","K","R">>, <<"S","H","I","F","T","_","J","I","S">>,
     <<"E","U","C","-","J","P">>, <<"x","-","m","a","c","-","c","y","r","i","l","l","i","c">>, <<"K","O","I","8","-","R">>, <<"T","I","S","-","6","2","0">>}

\* ------------------------------------------------------------ f32 scores
\* An f32 score is the integer x with value x * 2^-29: every f32 the loop
\* can produce (magnitude below 4, and a multiple of 2^-29) is such an x, and
\* every operation rounds to 24 significant bits, ties to even, as f32 does.
ONE == 536870912

\* The f32 nearest to each literal of the loop, in units of 2^-29
F32_0_05 == 26843546
F32_0_2 == 107374184
F32_0_4 == 214748368
F32_0_5 == 268435456
F32_0_9 == 483183808

\* f32::MIN, the initial best_score: below every score a trial can have
F32_MIN == -2147483647

\* Round the exact value x * 2^-29 to 24 significant bits, ties to even
F32Round(x) ==
    LET m == IF x < 0 THEN -x ELSE x
        s == CHOOSE k \in 0..7 : /\ (k > 0 => m >= 2^(23 + k))
                                 /\ (k < 7 => m < 2^(24 + k))
        q == m \div 2^s
        rem == m % 2^s
        up == 2 * rem > 2^s \/ (2 * rem = 2^s /\ q % 2 = 1)
        r == (IF up THEN q + 1 ELSE q) * 2^s
    IN  IF x < 0 THEN -r ELSE r

F32Add(a, b) == F32Round(a + b)
F32Sub(a, b) == F32Round(a - b)

\* The least k with n * 2^k / t >= 2^23
RECURSIVE Normalize(_, _, _)
Normalize(n, t, k) == IF n \div t >= 2^23 THEN k ELSE Normalize(2 * n, t, k + 1)

\* error_chars as f32 / total_chars as f32, for 0 <= e <= t.  A quotient
\* below 1/32 is not a multiple of 2^-29: no sample of the model has one.
F32Div(e, t) ==
    CASE e = 0 -> 0
      [] e = t -> ONE
      [] 0 < e /\ e < t /\ 32 * e >= t ->
            LET k == Normalize(e, t, 0)
                n == e * 2^k
                q == n \div t
                rem == n % t
                up == 2 * rem > t \/ (2 * rem = t /\ q % 2 = 1)
            IN  (IF up THEN q + 1 ELSE q) * 2^(29 - k)

\* score += bonus (score -= penalty for a negative bonus) under a condition
Bonus(cond, bonus, score) == IF cond THEN F32Add(score, bonus) ELSE score

\* The label tests of the bonuses
IsMac(encoding_name) ==
    Contains(encoding_name, <<"m","a","c","-","c","y","r","i","l","l","i","c">>) \/ Contains(encoding_name, <<"x","-","m","a","c","-","c","y","r","i","l","l","i","c">>)
Is949(encoding_name) ==
    Contains(encoding_name, <<"9","4","9">>) \/ Contains(encoding_name, <<"w","i","n","d","o","w","s","-","9","4","9">>)

\* score > 1.0
AboveOne(s) == s > ONE

\* error_ratio < min_error_ratio for two quotients e / t: f32 division is
\* monotone and keeps distinct quotients of small integers distinct
RatioLT(a, b) == a.num * b.den < b.num * a.den

\* Vec::push of every fallback the list does not contain yet
RECURSIVE PushMissing(_, _)
PushMissing(list, more) ==
    IF more = <<>> THEN list
    ELSE IF \E i \in 1..Len(list) : list[i] = Head(more) THEN PushMissing(list, Tail(more))
    ELSE PushMissing(Append(list, Head(more)), Tail(more))

\* -------------------------------------------------------------- from_path
\* fp_map_detected with chardet's name handed on as it is: "ascii" is a label
\* of windows-1252 for encoding_rs
fp_map_detected_passthrough(detected, byte_hints) == detected

\* lines 226-263: chardet's name, lowercased with '-' replaced by '_',
\* mapped to the label to try first
fp_map_detected(detected, byte_hints) ==
    IF detected \in {<<"u","t","f","_","8">>, <<"u","t","f","8">>, <<"a","s","c","i","i">>} THEN <<"U","T","F","-","8">>
    ELSE IF detected \in {<<"b","i","g","5">>, <<"b","i","g","_","5">>} THEN <<"B","i","g","5">>
    ELSE IF detected \in {<<"g","b","2","3","1","2">>, <<"g","b","_","2","3","1","2">>, <<"g","b","k">>} THEN <<"G","B","K">>
    ELSE IF detected \in {<<"w","i","n","d","o","w","s","_","1","2","5","2">>, <<"c","p","1","2","5","2">>, <<"i","s","o","_","8","8","5","9","_","1">>}
         THEN (IF "likely_turkish" \in byte_hints THEN <<"w","i","n","d","o","w","s","-","1","2","5","4">> ELSE <<"w","i","n","d","o","w","s","-","1","2","5","2">>)
    ELSE IF detected \in {<<"w","i","n","d","o","w","s","_","1","2","5","6">>, <<"c","p","1","2","5","6">>, <<"i","s","o","_","8","8","5","9","_","6">>} THEN <<"w","i","n","d","o","w","s","-","1","2","5","6">>
    ELSE IF detected \in {<<"w","i","n","d","o","w","s","_","1","2","5","5">>, <<"c","p","1","2","5","5">>, <<"i","s","o","_","8","8","5","9","_","8">>} THEN <<"w","i","n","d","o","w","s","-","1","2","5","5">>
    ELSE IF detected \in {<<"w","i","n","d","o","w","s","_","1","2","5","3">>, <<"c","p","1","2","5","3">>, <<"i","s","o","_","8","8","5","9","_","7">>} THEN <<"w","i","n","d","o","w","s","-","1","2","5","3">>
    ELSE IF detected \in {<<"w","i","n","d","o","w","s","_","1","2","5","1">>, <<"c","p","1","2","5","1">>, <<"i","s","o","_","8","8","5","9","_","5">>}
         THEN (IF "likely_arabic" \in byte_hints THEN <<"w","i","n","d","o","w","s","-","1","2","5","6">>
               ELSE IF "likely_mac_cyrillic" \in byte_hints THEN <<"x","-","m","a","c","-","c","y","r","i","l","l","i","c">>
               ELSE <<"w","i","n","d","o","w","s","-","1","2","5","1">>)
    ELSE IF detected \in {<<"w","i","n","d","o","w","s","_","1","2","5","4">>, <<"c","p","1","2","5","4">>, <<"i","s","o","_","8","8","5","9","_","9">>} THEN <<"w","i","n","d","o","w","s","-","1","2","5","4">>
    ELSE IF detected \in {<<"w","i","n","d","o","w","s","_","1","2","5","0">>, <<"c","p","1","2","5","0">>, <<"i","s","o","_","8","8","5","9","_","2">>} THEN <<"w","i","n","d","o","w","s","-","1","2","5","0">>
    ELSE IF detected \in {<<"e","u","c","_","k","r">>, <<"c","p","9","4","9">>, <<"w","i","n","d","o","w","s","_","9","4","9">>, <<"k","s","_","c","_","5","6","0","1","_","1","9","8","7">>} THEN <<"w","i","n","d","o","w","s","-","9","4","9">>
    ELSE IF detected \in {<<"s","h","i","f","t","_","j","i","s">>, <<"s","h","i","f","t","_","j","i","s","x","0","2","1","3">>, <<"c","p","9","3","2">>} THEN <<"s","h","i","f","t","_","j","i","s">>
    ELSE IF detected = <<"e","u","c","_","j","p">> THEN <<"E","U","C","-","J","P">>
    ELSE IF detected \in {<<"m","a","c","_","c","y","r","i","l","l","i","c">>, <<"x","_","m","a","c","_","c","y","r","i","l","l","i","c">>} THEN <<"x","-","m","a","c","-","c","y","r","i","l","l","i","c">>
    ELSE IF detected \in {<<"k","o","i","8","_","r">>, <<"k","o","i","8","r">>} THEN <<"K","O","I","8","-","R">>
    ELSE <<"U","T","F","-","8">>

\* fp_seed with the four-byte marks tested before the two-byte ones
fp_seed_long_marks_first(buf, answer) ==
    IF StartsWith(buf, <<255, 254, 0, 0>>) THEN [encoding_str |-> <<"U","T","F","-","3","2","L","E">>, skip_bytes |-> 4]
    ELSE IF StartsWith(buf, <<0, 0, 254, 255>>)
         THEN [encoding_str |-> <<"U","T","F","-","3","2","B","E">>, skip_bytes |-> 4]
    ELSE IF StartsWith(buf, <<255, 254>>) THEN [encoding_str |-> <<"U","T","F","-","1","6","L","E">>, skip_bytes |-> 2]
    ELSE IF StartsWith(buf, <<254, 255>>) THEN [encoding_str |-> <<"U","T","F","-","1","6","B","E">>, skip_bytes |-> 2]
    ELSE [encoding_str |-> <<"U","T","F","-","8">>, skip_bytes |-> 0]

\* lines 204-265: (encoding_str, skip_bytes)
fp_seed(buf, answer) ==
    IF StartsWith(buf, <<239, 187, 191>>) THEN [encoding_str |-> <<"u","t","f","_","8">>, skip_bytes |-> 3]
    ELSE IF StartsWith(buf, <<255, 254>>) THEN [encoding_str |-> <<"U","T","F","-","1","6","L","E">>, skip_bytes |-> 2]
    ELSE IF StartsWith(buf, <<254, 255>>) THEN [encoding_str |-> <<"U","T","F","-","1","6","B","E">>, skip_bytes |-> 2]
    ELSE IF StartsWith(buf, <<255, 254, 0, 0>>)
         THEN [encoding_str |-> <<"U","T","F","-","3","2","L","E">>, skip_bytes |-> 4]
    ELSE IF StartsWith(buf, <<0, 0, 254, 255>>)
         THEN [encoding_str |-> <<"U","T","F","-","3","2","B","E">>, skip_bytes |-> 4]
    ELSE IF detect_utf16_pattern(buf) # None
         THEN [encoding_str |-> detect_utf16_pattern(buf), skip_bytes |-> 0]
    ELSE [encoding_str |->
              fp_map_detected(ReplaceChar(ToLower(chardet_detect(buf, answer)), "-", "_"),
                              analyze_byte_patterns(buf)),
          skip_bytes |-> 0]

\* lines 277-296: the fallback labels, in order
fp_fallbacks ==
    <<<<"U","T","F","-","8">>, <<"x","-","m","a","c","-","c","y","r","i","l","l","i","c">>, <<"w","i","n","d","o","w","s","-","1","2","5","2">>, <<"w","i","n","d","o","w","s","-","1","2","5","6">>, <<"w","i","n","d","o","w","s","-","1","2","5","5">>,
      <<"w","i","n","d","o","w","s","-","1","2","5","3">>, <<"w","i","n","d","o","w","s","-","1","2","5","1">>, <<"w","i","n","d","o","w","s","-","1","2","5","4">>, <<"w","i","n","d","o","w","s","-","1","2","5","0">>, <<"w","i","n","d","o","w","s","-","9","4","9">>,
      <<"B","i","g","5">>, <<"G","B","K">>, <<"s","h","i","f","t","_","j","i","s">>, <<"E","U","C","-","J","P">>, <<"E","U","C","-","K","R">>, <<"m","a","c","-","c","y","r","i","l","l","i","c">>, <<"K","O","I","8","-","R">>,
      <<"I","S","O","-","8","8","5","9","-","1">>>>

\* lines 271-300: encodings_to_try
fp_candidates(seed) == PushMissing(<<seed>>, fp_fallbacks)

\* lines 316-362: the score of one trial, each bonus and penalty added in
\* the order of the code
fp_score(error_chars, total_chars, encoding_name, seed, lang_hints, hints) ==
    Bonus("likely_mac_cyrillic" \in hints /\ IsMac(encoding_name), F32_0_4,
     Bonus("cyrillic" \in lang_hints /\ Contains(encoding_name, <<"1","2","5","6">>), -F32_0_9,
      Bonus("arabic" \in lang_hints /\ Contains(encoding_name, <<"1","2","5","1">>), -F32_0_5,
       Bonus("cyrillic" \in lang_hints /\ ~IsMac(encoding_name)
                 /\ Contains(encoding_name, <<"1","2","5","1">>), F32_0_2,
        Bonus("cyrillic" \in lang_hints /\ IsMac(encoding_name), F32_0_5,
         Bonus("korean" \in lang_hints /\ ~Is949(encoding_name)
                   /\ (Contains(encoding_name, <<"e","u","c","-","k","r">>)
                       \/ Contains(encoding_name, <<"E","U","C","-","K","R">>)), F32_0_2,
          Bonus("korean" \in lang_hints /\ Is949(encoding_name), F32_0_4,
           Bonus("turkish" \in lang_hints /\ Contains(encoding_name, <<"1","2","5","4">>), F32_0_4,
            Bonus("arabic" \in lang_hints /\ Contains(encoding_name, <<"1","2","5","6">>), F32_0_5,
             Bonus(encoding_name = seed, F32_0_05,
              F32Sub(ONE, F32Div(error_chars, total_chars))))))))))))

\* lines 309-362: a supported candidate decoded and scored
fp_scored(encoding_name, seed, hints, encoding, d) ==
    LET error_chars == Count(d.decoded, LAMBDA c : c = REPLACEMENT)
        total_chars == Max(Len(d.decoded), 1)
    IN  [label |-> encoding_name, supported |-> TRUE, name |-> encoding,
         decoded |-> d.decoded, had_errors |-> d.had_errors,
         error_ratio |-> [num |-> error_chars, den |-> total_chars],
         score |-> fp_score(error_chars, total_chars, encoding_name, seed,
                            detect_language_hints(d.decoded), hints)]

\* lines 308-362: one candidate of the list; supported is whether for_label
\* knows the label
fp_trial(encoding_name, seed, buffer_slice, hints) ==
    IF for_label(encoding_name) = None
    THEN [label |-> encoding_name, supported |-> FALSE, name |-> None, decoded |-> <<>>,
          had_errors |-> FALSE, error_ratio |-> [num |-> 0, den |-> 1], score |-> F32_MIN]
    ELSE fp_scored(encoding_name, seed, hints, for_label(encoding_name),
                   decode(for_label(encoding_name), buffer_slice))

\* fp_better with >= for >: the last of several tied candidates wins
fp_better_nonstrict(t, best, min_ratio) == t.score >= best

\* line 364: does the trial replace the running best
fp_better(t, best, min_ratio) ==
    t.score > best \/ (t.score = best /\ RatioLT(t.error_ratio, min_ratio))

\* fp_perfect without the score test: any clean decode stops the scan
fp_perfect_any_clean(t) == ~t.had_errors /\ t.error_ratio.num = 0

\* line 371: perfect decode with high score
fp_perfect(t) == ~t.had_errors /\ t.error_ratio.num = 0 /\ AboveOne(t.score)

\* fp_final without the EUC-KR rewrite
fp_final_no_rewrite(best) ==
    normalize_encoding_name(IF best = None THEN <<"U","T","F","-","8">> ELSE best)

\* lines 378-385: final_encoding, EUC-KR rewritten, then normalized
fp_final(best) ==
    LET final_encoding == IF best = None THEN <<"U","T","F","-","8">> ELSE best
        lowered == ToLower(final_encoding)
    IN  normalize_encoding_name(IF Contains(lowered, <<"e","u","c","-","k","r">>) \/ Contains(lowered, <<"e","u","c","_","k","r">>)
                                THEN <<"w","i","n","d","o","w","s","-","9","4","9">> ELSE final_encoding)

\* lines 454-485: chardet's name, lowercased with '-' replaced by '_',
\* mapped to the label to try first
fps_map_detected(detected, byte_hints) ==
    IF detected \in {<<"u","t","f","_","8">>, <<"u","t","f","8">>, <<"a","s","c","i","i">>} THEN <<"U","T","F","-","8">>
    ELSE IF detected \in {<<"b","i","g","5">>, <<"b","i","g","_","5">>} THEN <<"B","i","g","5">>
    ELSE IF detected \in {<<"g","b","2","3","1","2">>, <<"g","b","_","2","3","1","2">>, <<"g","b","k">>} THEN <<"G","B","K">>
    ELSE IF detected \in {<<"w","i","n","d","o","w","s","_","1","2","5","2">>, <<"c","p","1","2","5","2">>, <<"i","s","o","_","8","8","5","9","_","1">>}
         THEN (IF "likely_turkish" \in byte_hints THEN <<"w","i","n","d","o","w","s","-","1","2","5","4">> ELSE <<"w","i","n","d","o","w","s","-","1","2","5","2">>)
    ELSE IF detected \in {<<"w","i","n","d","o","w","s","_","1","2","5","6">>, <<"c","p","1","2","5","6">>, <<"i","s","o","_","8","8","5","9","_","6">>} THEN <<"w","i","n","d","o","w","s","-","1","2","5","6">>
    ELSE IF detected \in {<<"w","i","n","d","o","w","s","_","1","2","5","5">>, <<"c","p","1","2","5","5">>, <<"i","s","o","_","8","8","5","9","_","8">>} THEN <<"w","i","n","d","o","w","s","-","1","2","5","5">>
    ELSE IF detected \in {<<"w","i","n","d","o","w","s","_","1","2","5","3">>, <<"c","p","1","2","5","3">>, <<"i","s","o","_","8","8","5","9","_","7">>} THEN <<"w","i","n","d","o","w","s","-","1","2","5","3">>
    ELSE IF detected \in {<<"w","i","n","d","o","w","s","_","1","2","5","1">>, <<"c","p","1","2","5","1">>, <<"i","s","o","_","8","8","5","9","_","5">>}
         THEN (IF "likely_arabic" \in byte_hints THEN <<"w","i","n","d","o","w","s","-","1","2","5","6">>
               ELSE IF "likely_mac_cyrillic" \in byte_hints THEN <<"x","-","m","a","c","-","c","y","r","i","l","l","i","c">>
               ELSE <<"w","i","n","d","o","w","s","-","1","2","5","1">>)
    ELSE IF detected \in {<<"w","i","n","d","o","w","s","_","1","2","5","4">>, <<"c","p","1","2","5","4">>, <<"i","s","o","_","8","8","5","9","_","9">>} THEN <<"w","i","n","d","o","w","s","-","1","2","5","4">>
    ELSE IF detected \in {<<"w","i","n","d","o","w","s","_","1","2","5","0">>, <<"c","p","1","2","5","0">>, <<"i","s","o","_","8","8","5","9","_","2">>} THEN <<"w","i","n","d","o","w","s","-","1","2","5","0">>
    ELSE IF detected \in {<<"e","u","c","_","k","r">>, <<"c","p","9","4","9">>, <<"w","i","n","d","o","w","s","_","9","4","9">>, <<"k","s","_","c","_","5","6","0","1","_","1","9","8","7">>} THEN <<"w","i","n","d","o","w","s","-","9","4","9">>
    ELSE IF detected \in {<<"s","h","i","f","t","_","j","i","s">>, <<"s","h","i","f","t","_","j","i","s","x","0","2","1","3">>, <<"c","p","9","3","2">>} THEN <<"s","h","i","f","t","_","j","i","s">>
    ELSE IF detected = <<"e","u","c","_","j","p">> THEN <<"E","U","C","-","J","P">>
    ELSE IF detected \in {<<"m","a","c","_","c","y","r","i","l","l","i","c">>, <<"x","_","m","a","c","_","c","y","r","i","l","l","i","c">>} THEN <<"x","-","m","a","c","-","c","y","r","i","l","l","i","c">>
    ELSE IF detected \in {<<"k","o","i","8","_","r">>, <<"k","o","i","8","r">>} THEN <<"K","O","I","8","-","R">>
    ELSE <<"U","T","F","-","8">>

\* lines 437-487: (encoding_str, skip_bytes)
fps_seed(buf, answer) ==
    IF StartsWith(buf, <<239, 187, 191>>) THEN [encoding_str |-> <<"u","t","f","_","8">>, skip_bytes |-> 3]
    ELSE IF StartsWith(buf, <<255, 254>>) THEN [encoding_str |-> <<"U","T","F","-","1","6","L","E">>, skip_bytes |-> 2]
    ELSE IF StartsWith(buf, <<254, 255>>) THEN [encoding_str |-> <<"U","T","F","-","1","6","B","E">>, skip_bytes |-> 2]
    ELSE IF StartsWith(buf, <<255, 254, 0, 0>>)
         THEN [encoding_str |-> <<"U","T","F","-","3","2","L","E">>, skip_bytes |-> 4]
    ELSE IF StartsWith(buf, <<0, 0, 254, 255>>)
         THEN [encoding_str |-> <<"U","T","F","-","3","2","B","E">>, skip_bytes |-> 4]
    ELSE IF detect_utf16_pattern(buf) # None
         THEN [encoding_str |-> detect_utf16_pattern(buf), skip_bytes |-> 0]
    ELSE [encoding_str |->
              fps_map_detected(ReplaceChar(ToLower(chardet_detect(buf, answer)), "-", "_"),
                              analyze_byte_patterns(buf)),
          skip_bytes |-> 0]

\* lines 494-513: the fallback labels, in order
fps_fallbacks ==
    <<<<"U","T","F","-","8">>, <<"x","-","m","a","c","-","c","y","r","i","l","l","i","c">>, <<"w","i","n","d","o","w","s","-","1","2","5","2">>, <<"w","i","n","d","o","w","s","-","1","2","5","6">>, <<"w","i","n","d","o","w","s","-","1","2","5","5">>,
      <<"w","i","n","d","o","w","s","-","1","2","5","3">>, <<"w","i","n","d","o","w","s","-","1","2","5","1">>, <<"w","i","n","d","o","w","s","-","1","2","5","4">>, <<"w","i","n","d","o","w","s","-","1","2","5","0">>, <<"w","i","n","d","o","w","s","-","9","4","9">>,
      <<"B","i","g","5">>, <<"G","B","K">>, <<"s","h","i","f","t","_","j","i","s">>, <<"E","U","C","-","J","P">>, <<"E","U","C","-","K","R">>, <<"m","a","c","-","c","y","r","i","l","l","i","c">>, <<"K","O","I","8","-","R">>,
      <<"I","S","O","-","8","8","5","9","-","1">>>>

\* lines 490-517: encodings_to_try
fps_candidates(seed) == PushMissing(<<seed>>, fps_fallbacks)

\* lines 531-571: the score of one trial, each bonus and penalty added in
\* the order of the code
fps_score(error_chars, total_chars, encoding_name, seed, lang_hints, hints) ==
    Bonus("likely_mac_cyrillic" \in hints /\ IsMac(encoding_name), F32_0_4,
     Bonus("cyrillic" \in lang_hints /\ Contains(encoding_name, <<"1","2","5","6">>), -F32_0_9,
      Bonus("arabic" \in lang_hints /\ Contains(encoding_name, <<"1","2","5","1">>), -F32_0_5,
       Bonus("cyrillic" \in lang_hints /\ ~IsMac(encoding_name)
                 /\ Contains(encoding_name, <<"1","2","5","1">>), F32_0_2,
        Bonus("cyrillic" \in lang_hints /\ IsMac(encoding_name), F32_0_5,
         Bonus("korean" \in lang_hints /\ ~Is949(encoding_name)
                   /\ (Contains(encoding_name, <<"e","u","c","-","k","r">>)
                       \/ Contains(encoding_name, <<"E","U","C","-","K","R">>)), F32_0_2,
          Bonus("korean" \in lang_hints /\ Is949(encoding_name), F32_0_4,
           Bonus("turkish" \in lang_hints /\ Contains(encoding_name, <<"1","2","5","4">>), F32_0_4,
            Bonus("arabic" \in lang_hints /\ Contains(encoding_name, <<"1","2","5","6">>), F32_0_5,
             Bonus(encoding_name = seed, F32_0_05,
              F32Sub(ONE, F32Div(error_chars, total_chars))))))))))))

\* lines 526-571: a supported candidate decoded and scored
fps_scored(encoding_name, seed, hints, encoding, d) ==
    LET error_chars == Count(d.decoded, LAMBDA c : c = REPLACEMENT)
        total_chars == Max(Len(d.decoded), 1)
    IN  [label |-> encoding_name, supported |-> TRUE, name |-> encoding,
         decoded |-> d.decoded, had_errors |-> d.had_errors,
         error_ratio |-> [num |-> error_chars, den |-> total_chars],
         score |-> fps_score(error_chars, total_chars, encoding_name, seed,
                            detect_language_hints(d.decoded), hints)]

\* lines 525-571: one candidate of the list; supported is whether for_label
\* knows the label
fps_trial(encoding_name, seed, buffer_slice, hints) ==
    IF for_label(encoding_name) = None
    THEN [label |-> encoding_name, supported |-> FALSE, name |-> None, decoded |-> <<>>,
          had_errors |-> FALSE, error_ratio |-> [num |-> 0, den |-> 1], score |-> F32_MIN]
    ELSE fps_scored(encoding_name, seed, hints, for_label(encoding_name),
                   decode(for_label(encoding_name), buffer_slice))

\* fps_better with >= for >: the two functions no longer break ties alike
fps_better_nonstrict(t, best, min_ratio) == t.score >= best

\* line 573: does the trial replace the running best
fps_better(t, best, min_ratio) ==
    t.score > best \/ (t.score = best /\ RatioLT(t.error_ratio, min_ratio))

\* line 579: perfect decode with high score
fps_perfect(t) == ~t.had_errors /\ t.error_ratio.num = 0 /\ AboveOne(t.score)

\* lines 586-592: final_encoding, EUC-KR rewritten, then normalized
fps_final(best) ==
    LET final_encoding == IF best = None THEN <<"U","T","F","-","8">> ELSE best
        lowered == ToLower(final_encoding)
    IN  normalize_encoding_name(IF Contains(lowered, <<"e","u","c","-","k","r">>) \/ Contains(lowered, <<"e","u","c","_","k","r">>)
                                THEN <<"w","i","n","d","o","w","s","-","9","4","9">> ELSE final_encoding)

\* ------------------------------------------------------------------ state
VARIABLES
    file,              \* the bytes of the source at file_path
    oracle,            \* what chardet answers for this source (see chardet_detect)
    call,              \* the function running: "none", "from_path", "from_path_stream"
    pc,                \* where it is: "idle", "read", "check", "detect", "loop", "post"
    max_size,          \* from_path_stream: max_sample_size.unwrap_or(MAX_SAMPLE_SIZE)
    buffer,            \* the bytes read so far
    total_read,        \* from_path_stream: bytes counted by the read loop
    encoding_str,      \* the label tried first
    skip_bytes,        \* length of the byte-order mark
    encodings_to_try,  \* the candidate labels, in order
    byte_hints,        \* analyze_byte_patterns(&buffer)
    idx,               \* position of the for loop in encodings_to_try
    best_encoding,     \* Option<String>: name of the best encoding so far
    best_text,         \* its decoded text
    min_error_ratio,   \* its error ratio
    best_score,        \* its score
    scanned,           \* history: the trials of the loop so far, in order
    outcome            \* what each function returned: Pending, Ok(CharsetMatch), Err

vars == <<file, oracle, call, pc, max_size, buffer, total_read, encoding_str, skip_bytes,
          encodings_to_try, byte_hints, idx, best_encoding, best_text, min_error_ratio,
          best_score, scanned, outcome>>

input == <<file, oracle>>
locals == <<buffer, total_read, encoding_str, skip_bytes, encodings_to_try, byte_hints, idx,
            best_encoding, best_text, min_error_ratio, best_score, scanned>>
loop_vars == <<idx, best_encoding, best_text, min_error_ratio, best_score, scanned>>

Pending == [kind |-> "Pending"]

\* ----------------------------------------------------------------- inputs
\* All byte sequences of length at most n over the bytes in bs
Seqs(bs, n) == UNION {[1..k -> bs] : k \in 0..n}

RECURSIVE Flatten(_)
Flatten(ss) == IF ss = <<>> THEN <<>> ELSE Head(ss) \o Flatten(Tail(ss))

RECURSIVE Repeat(_, _)
Repeat(s, k) == IF k = 0 THEN <<>> ELSE s \o Repeat(s, k - 1)

\* Nothing, or one of the marks the code checks first
Marks == {<<>>, <<239, 187, 191>>, <<255, 254>>, <<254, 255>>}

\* Spec: an optional mark, then up to MaxLen bytes of 'A', 0xA3, 0xB0, 0xFF
ShortFiles == {m \o t : m \in Marks, t \in Seqs({65, 163, 176, 255}, MaxLen)}

\* SpecKorean: up to MaxUnits units, each the letter 'A', the EUC-KR pair
\* B0 A3 (a Hangul syllable) or the lead byte B0 alone
KoreanFiles == {Flatten(us) : us \in Seqs({<<65>>, <<176, 163>>, <<176>>}, MaxUnits)}

\* SpecAscii: up to MaxHead units 'A' NUL, then a unit of two 7-bit bytes
\* repeated up to MaxRep times, then nothing or one more 'A' (an odd length).
\* The unit is made of NUL and 'A', or is 'A' 0x06, which is U+0641 as a
\* little-endian UTF-16 code unit.
AsciiUnits == [1..2 -> {0, 65}] \cup {<<65, 6>>}
AsciiFiles ==
    {Repeat(<<65, 0>>, h) \o Repeat(u, k) \o t :
        h \in 0..MaxHead, u \in AsciiUnits, k \in 0..MaxRep, t \in {<<>>, <<65>>}}

\* SpecMarks: one of the marks of UTF-32 and UTF-16, then up to MaxTail bytes
\* that are NUL or 'A'
LongMarks == {<<255, 254, 0, 0>>, <<0, 0, 254, 255>>, <<255, 254>>, <<254, 255>>}
MarkedFiles == {m \o t : m \in LongMarks, t \in Seqs({0, 65}, MaxTail)}

\* SpecNulls: n bytes, NUL at the first a odd offsets and at the first b even
\* offsets, 'A' elsewhere
Layout(n, a, b) ==
    [i \in 1..n |-> IF (i - 1) % 2 = 1 /\ (i - 1) \div 2 < a THEN 0
                    ELSE IF (i - 1) % 2 = 0 /\ (i - 1) \div 2 < b THEN 0
                    ELSE 65]
NulFiles == {Layout(n, a, b) : n \in 0..MaxSample, a \in 0..MaxNulls, b \in 0..MaxNulls}

\* max_sample_size.unwrap_or(MAX_SAMPLE_SIZE): the default, or an explicit size
SampleSizes == {MAX_SAMPLE_SIZE} \cup 0..MaxArg

InitLocals ==
    /\ buffer = <<>>
    /\ total_read = 0
    /\ encoding_str = None
    /\ skip_bytes = 0
    /\ encodings_to_try = <<>>
    /\ byte_hints = {}
    /\ idx = 0
    /\ best_encoding = None
    /\ best_text = <<>>
    /\ min_error_ratio = [num |-> 1, den |-> 1]
    /\ best_score = F32_MIN
    /\ scanned = <<>>

InitRest ==
    /\ call = "none"
    /\ pc = "idle"
    /\ max_size = 0
    /\ InitLocals
    /\ outcome = [from_path |-> Pending, from_path_stream |-> Pending]

Init ==
    /\ file \in ShortFiles
    /\ oracle \in ChardetNames
    /\ InitRest

InitKorean ==
    /\ file \in KoreanFiles
    /\ oracle \in {<<"E","U","C","-","K","R">>, <<"w","i","n","d","o","w","s","-","1","2","5","2">>}
    /\ InitRest

InitMarks ==
    /\ file \in MarkedFiles
    /\ oracle \in {<<"u","t","f","-","8">>, <<"I","S","O","-","8","8","5","9","-","1">>}
    /\ InitRest

InitNulls ==
    /\ file \in NulFiles
    /\ oracle = <<"a","s","c","i","i">>
    /\ InitRest

InitAscii ==
    /\ file \in AsciiFiles
    /\ oracle = <<"a","s","c","i","i">>
    /\ InitRest

\* The locals of a function are dropped when it returns
DropLocals ==
    /\ buffer' = <<>>
    /\ total_read' = 0
    /\ encoding_str' = None
    /\ skip_bytes' = 0
    /\ encodings_to_try' = <<>>
    /\ byte_hints' = {}
    /\ idx' = 0
    /\ best_encoding' = None
    /\ best_text' = <<>>
    /\ min_error_ratio' = [num |-> 1, den |-> 1]
    /\ best_score' = F32_MIN
    /\ scanned' = <<>>

\* What a trial leaves in the history
Entry(t, took) ==
    [label |-> t.label, supported |-> t.supported, name |-> t.name, score |-> t.score,
     error_ratio |-> t.error_ratio, had_errors |-> t.had_errors, took |-> took]

\* lines 364-375 (573-583): the running best after a trial, and whether the
\* loop goes on; took is whether the trial replaced the best, break whether
\* the loop ends at it
LoopStep(t, took, break) ==
    /\ best_score' = IF took THEN t.score ELSE best_score
    /\ min_error_ratio' = IF took THEN t.error_ratio ELSE min_error_ratio
    /\ best_encoding' = IF took THEN t.name ELSE best_encoding
    /\ best_text' = IF took THEN t.decoded ELSE best_text
    /\ scanned' = Append(scanned, Entry(t, took))
    /\ idx' = idx + 1
    /\ pc' = IF break \/ idx = Len(encodings_to_try) THEN "post" ELSE "loop"

fp_took(t) == t.supported /\ fp_better(t, best_score, min_error_ratio)
fp_step(t) == LoopStep(t, fp_took(t), fp_took(t) /\ fp_perfect(t))

fps_took(t) == t.supported /\ fps_better(t, best_score, min_error_ratio)
fps_step(t) == LoopStep(t, fps_took(t), fps_took(t) /\ fps_perfect(t))

\* ------------------------------------------------------ from_path, actions
\* lines 191-201: the call, File::open and read_to_end
from_path_read ==
    /\ call = "none"
    /\ outcome.from_path = Pending
    /\ call' = "from_path"
    /\ pc' = "detect"
    /\ buffer' = file
    /\ UNCHANGED <<input, max_size, total_read, encoding_str, skip_bytes, encodings_to_try,
                   byte_hints, loop_vars, outcome>>

\* lines 203-305: the label to try first, the candidate list, the loop's variables
from_path_detect ==
    /\ call = "from_path"
    /\ pc = "detect"
    /\ LET seed == fp_seed(buffer, oracle) IN
        /\ encoding_str' = seed.encoding_str
        /\ skip_bytes' = seed.skip_bytes
        /\ encodings_to_try' = fp_candidates(seed.encoding_str)
    /\ byte_hints' = analyze_byte_patterns(buffer)
    /\ idx' = 1
    /\ best_encoding' = None
    /\ best_text' = <<>>
    /\ min_error_ratio' = [num |-> 1, den |-> 1]
    /\ best_score' = F32_MIN
    /\ scanned' = <<>>
    /\ pc' = "loop"
    /\ UNCHANGED <<input, call, max_size, buffer, total_read, outcome>>

\* lines 307-376: one iteration of the for loop
from_path_trial ==
    /\ call = "from_path"
    /\ pc = "loop"
    /\ fp_step(fp_trial(encodings_to_try[idx], encoding_str,
                    SubSeq(buffer, skip_bytes + 1, Len(buffer)), byte_hints))
    /\ UNCHANGED <<input, call, max_size, buffer, total_read, encoding_str, skip_bytes,
                   encodings_to_try, byte_hints, outcome>>

\* lines 378-391: the CharsetMatch returned
from_path_return ==
    /\ call = "from_path"
    /\ pc = "post"
    /\ outcome' = [outcome EXCEPT !.from_path =
                      [kind |-> "Ok", encoding |-> fp_final(best_encoding),
                       raw_bytes |-> buffer, decoded_text |-> best_text]]
    /\ call' = "none"
    /\ pc' = "idle"
    /\ DropLocals
    /\ UNCHANGED <<input, max_size>>

\* ----------------------------------------------- from_path_stream, actions
\* lines 398-409: the call with its max_sample_size, File::open
from_path_stream_open ==
    /\ call = "none"
    /\ outcome.from_path # Pending
    /\ outcome.from_path_stream = Pending
    /\ max_size' \in SampleSizes
    /\ call' = "from_path_stream"
    /\ pc' = "read"
    /\ buffer' = <<>>
    /\ total_read' = 0
    /\ UNCHANGED <<input, encoding_str, skip_bytes, encodings_to_try, byte_hints, loop_vars,
                   outcome>>

\* lines 412-429: one iteration of the read loop.  reader.read fills at most
\* CHUNK_SIZE bytes and may return fewer; it returns 0 only at the end of
\* the file.
from_path_stream_read ==
    /\ call = "from_path_stream"
    /\ pc = "read"
    /\ LET left == Len(file) - Len(buffer) IN
       \E bytes_read \in (IF left = 0 THEN {0} ELSE 1..Min(CHUNK_SIZE, left)) :
          IF bytes_read = 0
          THEN /\ pc' = "check"
               /\ UNCHANGED <<buffer, total_read>>
          ELSE /\ buffer' = buffer \o SubSeq(file, Len(buffer) + 1, Len(buffer) + bytes_read)
               /\ total_read' = total_read + bytes_read
               /\ pc' = IF total_read + bytes_read >= max_size THEN "check" ELSE "read"
    /\ UNCHANGED <<input, call, max_size, encoding_str, skip_bytes, encodings_to_try,
                   byte_hints, loop_vars, outcome>>

\* lines 432-434: an empty sample is an error
from_path_stream_check ==
    /\ call = "from_path_stream"
    /\ pc = "check"
    /\ IF buffer = <<>>
       THEN /\ outcome' = [outcome EXCEPT !.from_path_stream =
                              [kind |-> "Err", message |-> "File is empty"]]
            /\ call' = "none"
            /\ pc' = "idle"
            /\ DropLocals
       ELSE /\ pc' = "detect"
            /\ UNCHANGED <<call, locals, outcome>>
    /\ UNCHANGED <<input, max_size>>

\* lines 436-522: the label to try first, the candidate list, the loop's variables
from_path_stream_detect ==
    /\ call = "from_path_stream"
    /\ pc = "detect"
    /\ LET seed == fps_seed(buffer, oracle) IN
        /\ encoding_str' = seed.encoding_str
        /\ skip_bytes' = seed.skip_bytes
        /\ encodings_to_try' = fps_candidates(seed.encoding_str)
    /\ byte_hints' = analyze_byte_patterns(buffer)
    /\ idx' = 1
    /\ best_encoding' = None
    /\ best_text' = <<>>
    /\ min_error_ratio' = [num |-> 1, den |-> 1]
    /\ best_score' = F32_MIN
    /\ scanned' = <<>>
    /\ pc' = "loop"
    /\ UNCHANGED <<input, call, max_size, buffer, total_read, outcome>>

\* lines 524-584: one iteration of the for loop
from_path_stream_trial ==
    /\ call = "from_path_stream"
    /\ pc = "loop"
    /\ fps_step(fps_trial(encodings_to_try[idx], encoding_str,
                      SubSeq(buffer, skip_bytes + 1, Len(buffer)), byte_hints))
    /\ UNCHANGED <<input, call, max_size, buffer, total_read, encoding_str, skip_bytes,
                   encodings_to_try, byte_hints, outcome>>

\* lines 586-598: the CharsetMatch returned
from_path_stream_return ==
    /\ call = "from_path_stream"
    /\ pc = "post"
    /\ outcome' = [outcome EXCEPT !.from_path_stream =
                      [kind |-> "Ok", encoding |-> fps_final(best_encoding),
                       raw_bytes |-> buffer, decoded_text |-> best_text]]
    /\ call' = "none"
    /\ pc' = "idle"
    /\ DropLocals
    /\ UNCHANGED <<input, max_size>>

Next ==
    \/ from_path_read
    \/ from_path_detect
    \/ from_path_trial
    \/ from_path_return
    \/ from_path_stream_open
    \/ from_path_stream_read
    \/ from_path_stream_check
    \/ from_path_stream_detect
    \/ from_path_stream_trial
    \/ from_path_stream_return

Spec == Init /\ [][Next]_vars
SpecKorean == InitKorean /\ [][Next]_vars
SpecAscii == InitAscii /\ [][Next]_vars
SpecMarks == InitMarks /\ [][Next]_vars
SpecNulls == InitNulls /\ [][Next]_vars


\* ============================================================== properties
Calls == {"from_path", "from_path_stream"}
Returned(c) == outcome[c].kind = "Ok"
IsSevenBit(bytes) == \A i \in 1..Len(bytes) : bytes[i] < 128
Bom8 == <<239, 187, 191>>

\* C1: a sample that starts with EF BB BF is always reported as utf_8,
\* whatever follows the mark.
C1_BomAlwaysUtf8 ==
    \A c \in Calls :
        (Returned(c) /\ StartsWith(outcome[c].raw_bytes, Bom8))
            => outcome[c].encoding = <<"u","t","f","_","8">>

\* C2: a zero-length source ends either call with an error, never with a result.
C2_EmptySourceIsError ==
    file = <<>> => \A c \in Calls : outcome[c].kind \in {"Pending", "Err"}

\* C3: the sample from_path_stream accumulates, and the raw_bytes it returns,
\* never hold more than max_sample_size bytes.
C3_SampleWithinCap ==
    /\ call = "from_path_stream" => Len(buffer) <= max_size
    /\ Returned("from_path_stream") => Len(outcome.from_path_stream.raw_bytes) <= max_size

\* C4: the encoding of every result is a non-empty identifier of the
\* normalizer's table, never an un-normalized label.
C4_EncodingIsCanonical ==
    \A c \in Calls :
        Returned(c) => /\ outcome[c].encoding \in NormalizerTable
                       /\ outcome[c].encoding # <<>>
                       /\ outcome[c].encoding \notin {<<"U","T","F","-","8">>, <<"w","i","n","d","o","w","s","-","1","2","5","2">>, <<"S","h","i","f","t","_","J","I","S">>}

C4_Witness ==
    /\ Returned("from_path") /\ outcome.from_path.encoding = <<"m","a","c","_","c","y","r","i","l","l","i","c">>
    /\ Returned("from_path_stream") /\ outcome.from_path_stream.encoding = <<"m","a","c","_","c","y","r","i","l","l","i","c">>

\* C5: when the loop ends with EUC-KR as the best encoding, the function
\* returns "cp949"; no function ever returns "euc_kr".
C5_EucKrIsCp949 ==
    [][pc = "post" =>
          /\ best_encoding = EUC_KR => outcome'[call].encoding = <<"c","p","9","4","9">>
          /\ outcome'[call].encoding # <<"e","u","c","_","k","r">>]_vars

C5_Witness ==
    /\ oracle = <<"E","U","C","-","K","R">>
    /\ Returned("from_path") /\ outcome.from_path.encoding = <<"c","p","9","4","9">>
    /\ Returned("from_path_stream") /\ outcome.from_path_stream.encoding = <<"c","p","9","4","9">>

\* C6: for a non-empty source no longer than max_sample_size, from_path_stream
\* returns what from_path returns: the same encoding, raw_bytes and decoded_text.
C6_SameResult ==
    (/\ file # <<>>
     /\ outcome.from_path # Pending
     /\ outcome.from_path_stream # Pending
     /\ Len(file) <= max_size)
        => outcome.from_path_stream = outcome.from_path

C6_Witness ==
    /\ file # <<>>
    /\ Len(file) <= max_size
    /\ Returned("from_path") /\ Returned("from_path_stream")
    /\ outcome.from_path_stream = outcome.from_path
    /\ outcome.from_path.encoding \notin {<<"u","t","f","_","8">>, <<"c","p","1","2","5","2">>}

\* C7, as stated: a sample without a byte >= 0x80 is reported as utf_8, gets
\* no byte hint, and its winning decode gets no language hint.
C7_SevenBitIsUtf8 ==
    /\ \A c \in Calls :
           (Returned(c) /\ IsSevenBit(outcome[c].raw_bytes))
               => outcome[c].encoding = <<"u","t","f","_","8">>
    /\ (pc = "post" /\ IsSevenBit(buffer))
           => byte_hints = {} /\ detect_language_hints(best_text) = {}

\* The seed of a 7-bit sample that the NUL-pattern test gives a verdict for
\* (UTF-16LE or UTF-16BE) keeps the lead over UTF-8: the sample has an even
\* length, so the seed decodes without a substitution and scores 1.05, or an
\* odd length of at least 41 bytes, so the one substitution for the last byte
\* costs less than the 0.05 the seed earns. At an odd length up to 39 the
\* seed scores at most 1.0 and UTF-8, decoding cleanly at 1.0, replaces it.
Utf16Wins(bytes) ==
    /\ detect_utf16_pattern(bytes) # None
    /\ (Len(bytes) % 2 = 0 \/ Len(bytes) >= 41)

\* C7, amended: a sample without a byte >= 0x80 gets no byte hint. It is
\* reported as utf_8, with a winning decode that equals the sample and gets
\* no language hint, unless the NUL-pattern test gives a verdict and the
\* sample has an even length or at least 41 bytes; it is then reported as
\* utf_16le or utf_16be after the verdict, with one U+FFFD in the winning
\* decode exactly when the length is odd.
C7_SevenBitIsUtf8UnlessUtf16Wins ==
    /\ \A c \in Calls :
           (Returned(c) /\ IsSevenBit(outcome[c].raw_bytes)) =>
               IF Utf16Wins(outcome[c].raw_bytes)
               THEN /\ detect_utf16_pattern(outcome[c].raw_bytes) = <<"U","T","F","-","1","6","L","E">>
                           => outcome[c].encoding = <<"u","t","f","_","1","6","l","e">>
                    /\ detect_utf16_pattern(outcome[c].raw_bytes) = <<"U","T","F","-","1","6","B","E">>
                           => outcome[c].encoding = <<"u","t","f","_","1","6","b","e">>
                    /\ Count(outcome[c].decoded_text, LAMBDA ch : ch = REPLACEMENT)
                           = Len(outcome[c].raw_bytes) % 2
               ELSE /\ outcome[c].encoding = <<"u","t","f","_","8">>
                    /\ outcome[c].decoded_text = outcome[c].raw_bytes
                    /\ detect_language_hints(outcome[c].decoded_text) = {}
    /\ (pc = "post" /\ IsSevenBit(buffer)) => byte_hints = {}

\* One run holds both sides of the odd-length boundary: from_path took the
\* whole file of at least 41 bytes, an odd number, and reports UTF-16 with a
\* U+FFFD for the last byte; from_path_stream sampled an odd-length prefix of
\* at least 33 bytes that the NUL-pattern test also gives a verdict for, and
\* reports utf_8.
C7_Witness ==
    /\ Returned("from_path") /\ Returned("from_path_stream")
    /\ IsSevenBit(outcome.from_path.raw_bytes)
    /\ Len(outcome.from_path.raw_bytes) % 2 = 1
    /\ Len(outcome.from_path.raw_bytes) >= 41
    /\ detect_utf16_pattern(outcome.from_path.raw_bytes) # None
    /\ outcome.from_path.encoding \in {<<"u","t","f","_","1","6","l","e">>, <<"u","t","f","_","1","6","b","e">>}
    /\ Len(outcome.from_path_stream.raw_bytes) % 2 = 1
    /\ Len(outcome.from_path_stream.raw_bytes) \in 33..39
    /\ detect_utf16_pattern(outcome.from_path_stream.raw_bytes) # None
    /\ outcome.from_path_stream.encoding = <<"u","t","f","_","8">>

\* C8: every result reports the newline style of the sample, one of CRLF, LF, CR.
C8_ResultHasNewlineStyle ==
    \A c \in Calls :
        Returned(c) => /\ "newlines" \in DOMAIN outcome[c]
                       /\ outcome[c]["newlines"] \in {"CRLF", "LF", "CR"}

\* A trial that decoded without a substitution and scored above 1.0
Clean(e) == e.supported /\ ~e.had_errors /\ e.error_ratio.num = 0 /\ AboveOne(e.score)

\* C9, as stated: the scan stops at the first candidate that decoded without
\* a substitution and scored above 1.0, whether or not it replaced the running
\* best; no candidate after it is decoded.
C9_StopsAtFirstClean ==
    \A i \in 1..Len(scanned) : Clean(scanned[i]) => i = Len(scanned)

\* C9, amended: the scan stops at the first candidate that replaced the
\* running best, decoded without a substitution and scored above 1.0, and only
\* there or at the end of the list; a candidate that did not replace the
\* running best does not stop it.
C9_StopsAtFirstCleanBest ==
    /\ \A i \in 1..Len(scanned) :
           (scanned[i].took /\ Clean(scanned[i])) => (i = Len(scanned) /\ pc = "post")
    /\ pc = "post" =>
           \/ Len(scanned) = Len(encodings_to_try)
           \/ (scanned[Len(scanned)].took /\ Clean(scanned[Len(scanned)]))
    /\ pc = "loop" => idx = Len(scanned) + 1

C9_Witness ==
    /\ pc = "post"
    /\ \E i \in 1..(Len(scanned) - 1) : Clean(scanned[i]) /\ ~scanned[i].took

\* The supported candidates among those scanned
Supported == {i \in 1..Len(scanned) : scanned[i].supported}

\* Candidate j is ahead of candidate w: a greater score, or the same score and
\* a lower error ratio, or the same of both and an earlier place in the list
Ahead(j, w) ==
    LET a == scanned[j]
        b == scanned[w]
    IN  \/ a.score > b.score
        \/ a.score = b.score /\ RatioLT(a.error_ratio, b.error_ratio)
        \/ /\ a.score = b.score
           /\ ~RatioLT(a.error_ratio, b.error_ratio)
           /\ ~RatioLT(b.error_ratio, a.error_ratio)
           /\ j < w

\* C10: the candidate chosen is the supported candidate of greatest score,
\* among those of greatest score the one of lowest error ratio, among those
\* the earliest; an unsupported candidate is never chosen, and at the end of
\* the scan exactly one candidate is chosen.
C10_ChosenIsBest ==
    /\ \A i \in 1..Len(scanned) : scanned[i].took => scanned[i].supported
    /\ pc = "post" => Supported # {}
    /\ (pc \in {"loop", "post"} /\ Supported # {}) =>
           \E w \in Supported :
               /\ \A j \in Supported : ~Ahead(j, w)
               /\ scanned[w].took
               /\ \A j \in (w + 1)..Len(scanned) : ~scanned[j].took
               /\ best_encoding = scanned[w].name
               /\ best_score = scanned[w].score
               /\ min_error_ratio = scanned[w].error_ratio
               /\ Cardinality({v \in Supported : \A j \in Supported : ~Ahead(j, v)}) = 1

C10_Witness ==
    /\ pc = "post"
    /\ \E w \in Supported :
           /\ scanned[w].took
           /\ \A j \in (w + 1)..Len(scanned) : ~scanned[j].took
           /\ \E j \in Supported :
                  /\ j < w
                  /\ scanned[j].score = scanned[w].score
                  /\ RatioLT(scanned[w].error_ratio, scanned[j].error_ratio)

Mark32LE == <<255, 254, 0, 0>>

\* C11: a sample that starts with FF FE 00 00 is given the label UTF-16LE and
\* skip length 2 by the mark test; no sample at all is given the label
\* UTF-32LE or, with the FF FE mark, skip length 4.
C11_Utf32LeMarkIsUtf16Le ==
    pc \in {"loop", "post"} =>
        /\ StartsWith(buffer, Mark32LE) => (encoding_str = <<"U","T","F","-","1","6","L","E">> /\ skip_bytes = 2)
        /\ encoding_str # <<"U","T","F","-","3","2","L","E">>
        /\ StartsWith(buffer, <<255, 254>>) => skip_bytes # 4

C11_Witness ==
    /\ call = "from_path_stream"
    /\ pc = "post"
    /\ StartsWith(buffer, Mark32LE)
    /\ Len(buffer) > 4
    /\ encoding_str = <<"U","T","F","-","1","6","L","E">>
    /\ skip_bytes = 2
    /\ Returned("from_path") /\ StartsWith(outcome.from_path.raw_bytes, Mark32LE)

\* NUL bytes of a sample at even offsets (parity 0) or odd offsets (parity 1)
Nulls(bytes, parity) ==
    Cardinality({i \in 1..Len(bytes) : (i - 1) % 2 = parity /\ bytes[i] = 0})

\* The test for UTF-16LE (parity 1) or UTF-16BE (parity 0): more NUL bytes
\* than a sixteenth of the size at the offsets of that parity, fewer than a
\* thirty-second at the others
NulTest(bytes, parity) ==
    /\ Nulls(bytes, parity) > Len(bytes) \div 16
    /\ Nulls(bytes, 1 - parity) < (Len(bytes) \div 16) \div 2

\* C12: for a sample without a mark, the NUL-pattern test gives a verdict
\* only at 32 bytes or more, never at 20 to 31 bytes whatever the layout of
\* the NUL bytes; the tests for UTF-16LE and UTF-16BE never both succeed.
C12_NulVerdictFrom32Bytes ==
    (pc \in {"loop", "post"} /\ IsSevenBit(buffer)) =>
        /\ encoding_str \in {<<"U","T","F","-","1","6","L","E">>, <<"U","T","F","-","1","6","B","E">>} => Len(buffer) >= 32
        /\ Len(buffer) \in 20..31 => encoding_str = <<"U","T","F","-","8">>
        /\ ~(NulTest(buffer, 1) /\ NulTest(buffer, 0))
        /\ encoding_str = <<"U","T","F","-","1","6","L","E">> <=> (Len(buffer) >= 20 /\ NulTest(buffer, 1))
        /\ encoding_str = <<"U","T","F","-","1","6","B","E">> <=> (Len(buffer) >= 20 /\ NulTest(buffer, 0))

C12_Witness ==
    /\ pc = "post"
    /\ Len(buffer) = 31
    /\ Nulls(buffer, 1) = MaxNulls
    /\ Nulls(buffer, 0) = 0
    /\ encoding_str = <<"U","T","F","-","8">>

====
